---- MODULE Spec2Model ----
(***************************************************************************)
(* Signal pipeline of the Binance Futures auto-analysis dashboard:         *)
(*   utils/indicators.py  atr, approximate_cvd_from_aggtrades              *)
(*   utils/signals.py     generate_recommendation,                         *)
(*                        get_top_n_pairs_by_volatility                    *)
(*   utils/data.py        get_top_n_pairs_by_volatility (second version)   *)
(*   api/binance.py       fetch_funding_rate, fetch_open_interest,         *)
(*                        rate_limited_request                             *)
(*   app.py               main_loop (evaluation cycle, last_signals map,   *)
(*                        Telegram notification block)                     *)
(*                                                                         *)
(* Numbers.  Prices and price levels are counted in units of the smallest  *)
(* positive value the float type represents, so a price is a natural       *)
(* number and a product price * factor is rounded to the nearest unit      *)
(* (ties to even), as the float multiplication does in that range.         *)
(* Prices that are multiples of 100 units make every product of the rule   *)
(* exact; they stand for ordinary prices, whose relative rounding error    *)
(* (2^-53) is not modelled.  Ratios (atr, atr_pct, the clamped offsets)    *)
(* are exact fractions [num, den].  Funding rates are counted in units of  *)
(* 0.0001, rr in hundredths (round(x, 2)).                                 *)
(* The float type ends at FloatMax units: a product beyond it is Inf, as   *)
(* a float product beyond the largest finite float is inf.  (The range of  *)
(* the model's float is far narrower than that of a 64-bit float; what     *)
(* happens at its two ends is the same.)                                   *)
(* An optional value is <<>> (Python None) or <<v>>.                       *)
(***************************************************************************)
EXTENDS Integers, Sequences, FiniteSets, TLC

VARIABLES
    feed,           \* generate_recommendation: what the four fetches return
    rec,            \* generate_recommendation: <<>> or <<the returned dict>>
    pc,             \* app.py: position of the script run
    elapsed,        \* app.py: time.time() - session_state["last_update"], capped
    notify,         \* app.py: notify and tg_bot_token and tg_chat_id (widgets)
    manual_refresh, \* app.py: the "Refresh Now" button of this run
    last_signals,   \* app.py: st.session_state["last_signals"]
    symbols,        \* app.py main_loop: the ranked list of this cycle
    results,        \* app.py main_loop: the list of recommendation dicts
    idx,            \* app.py main_loop: next element of `for r in results`
    alerts,         \* send_telegram_message calls of this run, in order
    hist,           \* the signals the notification block processed for
                    \* HistSymbol since the session began, as <<signal,
                    \* alert sent>>, recorded while they follow Scenario
    failed,         \* per symbol, the signal whose alert could not be sent
                    \* (send_telegram_message returned False), until the
                    \* block processes another signal for the symbol
    absent,         \* per symbol with a stored signal, that signal, from
                    \* the start of a cycle that does not rank the symbol
                    \* until the block processes the symbol again
    tickers,        \* ranker: what fetch_24hr_ticker returns
    top_n,          \* ranker: the argument n
    ranked,         \* ranker: <<>> or <<the lists the two versions return>>
    atr_df,         \* atr: the candle frame df
    atr_period,     \* atr: the argument period
    atr_out,        \* atr: <<>> or <<the last value of the returned series>>
    LAST_REQUEST_TIME, \* api/binance.py: per url, the time since the stamp
                    \* (now - LAST_REQUEST_TIME[url]), -1 when url has none
    call,           \* rate_limited_request: the call in progress or the
                    \* finished one
    sent_age,       \* per url, the time since the last HTTP request to it
                    \* was sent, -1 when none was
    gap             \* the time between the last HTTP request sent and the
                    \* request before it to the same url, -1 when it was
                    \* the first

rankVars == <<tickers, top_n, ranked>>
atrVars == <<atr_df, atr_period, atr_out>>
rlVars == <<LAST_REQUEST_TIME, call, sent_age, gap>>

\* the state of the functions that are examined on their own
pureVars == <<rankVars, atrVars, rlVars>>

vars == <<feed, rec, pc, elapsed, notify, manual_refresh, last_signals,
          symbols, results, idx, alerts, hist, failed, absent, pureVars>>

appVars == <<pc, elapsed, notify, manual_refresh, last_signals,
             symbols, results, idx, alerts, hist, failed, absent>>

----------------------------------------------------------------------------
(* Bounds of the model *)

\* longest candle series a klines fetch returns (timeframe candles)
MaxCandles == 2
\* longest 1-minute candle series the CVD fetch returns
MaxCvdCandles == 2
\* the refresh widget, in ticks of the clock (one tick per time.sleep(1))
RefreshTicks == 2
\* the Top N widget
TopN == 2
\* longest ticker list fetch_24hr_ticker returns
MaxTickers == 3
\* longest candle frame and largest period atr is examined on
MaxSeries == 3
MaxPeriod == 3
\* longest time a request takes to be answered or to fail, in clock ticks
MaxLatency == 1
\* highest of the prices at the bottom of the float range, in units
MaxLowPrice == 400

----------------------------------------------------------------------------
(* Program constants *)

\* funding < -0.0005 / funding > 0.0005, in units of 0.0001
FundingThreshold == 5
\* atr_pct * 5 and atr_pct * 3
TpFactor == 5
SlFactor == 3
\* max(0.01, min(0.05, .)) and max(0.01, min(0.03, .)), in percent
TpFloorPct == 1
TpCapPct == 5
SlFloorPct == 1
SlCapPct == 3
\* atr(kl, period=14)
AtrPeriod == 14
\* atr_pct > 0.03 (reason of a WAIT), in percent
HighVolPct == 3
\* The clock of rate_limited_request ticks every 100 ms.
\* MIN_REQUEST_INTERVAL = 0.2
MIN_REQUEST_INTERVAL == 2
\* max_retries = 3
max_retries == 3
\* wait_time = (attempt + 1) * 2 seconds after a 451
ThrottleWaitTicks == 20
\* time.sleep((attempt + 1) * 1) seconds after an HTTPError
ErrorWaitTicks == 10

----------------------------------------------------------------------------
(* Optional values and exact fractions *)

None == <<>>
Some(v) == <<v>>

Abs(x) == IF x < 0 THEN -x ELSE x

Rat(n, d) == [num |-> n, den |-> d]
Pct(p) == Rat(p, 100)
RLt(a, b) == a.num * b.den < b.num * a.den
REq(a, b) == a.num * b.den = b.num * a.den
RScale(k, a) == Rat(k * a.num, a.den)

\* Python min(a, b) and max(a, b): the first argument unless the second is
\* strictly smaller (larger)
PyMin(a, b) == IF RLt(b, a) THEN b ELSE a
PyMax(a, b) == IF RLt(a, b) THEN b ELSE a

\* n / d rounded to the nearest integer, ties to even (d > 0)
RoundHalfEven(n, d) ==
    LET q == n \div d
        r == n % d
    IN  IF 2 * r < d THEN q
        ELSE IF 2 * r > d THEN q + 1
        ELSE IF q % 2 = 0 THEN q ELSE q + 1

\* the largest finite float, in units, and float("inf")
FloatMax == 1000000
Inf == 2000000000

\* the float product price * f of a price and a fraction f
FMul(price, f) ==
    LET exact == RoundHalfEven(price * f.num, f.den)
    IN  IF exact > FloatMax THEN Inf ELSE exact

RECURSIVE SumTo(_, _, _)
\* f[lo] + ... + f[hi]
SumTo(f, lo, hi) == IF lo > hi THEN 0 ELSE f[hi] + SumTo(f, lo, hi - 1)

Max2(a, b) == IF a < b THEN b ELSE a
Min2(a, b) == IF a < b THEN a ELSE b

----------------------------------------------------------------------------
(* utils/indicators.py *)

\* tr: the true range of candle i of the series df (1-based); the shifted
\* close of the first candle is NaN, which max(axis=1) skips
TrueRange(df, i) ==
    LET high_low == df[i].high - df[i].low
    IN  IF i = 1 THEN high_low
        ELSE Max2(high_low, Max2(Abs(df[i].high - df[i - 1].close),
                                 Abs(df[i].low - df[i - 1].close)))

\* a variant whose rolling mean needs a full window (min_periods=period)
\* and is NaN (0/0) before
atr_full_window(df, period) ==
    LET k == Len(df)
        tr == [i \in 1..k |-> TrueRange(df, i)]
    IN  IF k < period THEN Rat(0, 0)
        ELSE Rat(SumTo(tr, k - period + 1, k), period)

\* atr(df, period).iloc[-1]: rolling(period, min_periods=1).mean() at the
\* last candle, as the fraction sum / count
atr(df, period) ==
    LET k == Len(df)
        n == IF k < period THEN k ELSE period
        tr == [i \in 1..k |-> TrueRange(df, i)]
    IN  Rat(SumTo(tr, k - n + 1, k), n)

\* a variant that answers a silent zero when the fetch fails
approximate_cvd_zero_on_error(resp) ==
    IF ~resp.ok THEN Some(0)
    ELSE IF Len(resp.data) = 0 THEN Some(0)
    ELSE LET df == resp.data
             delta == [i \in 1..Len(df) |->
                          df[i].taker_buy_base
                              - (df[i].volume - df[i].taker_buy_base)]
         IN  Some(SumTo(delta, 1, Len(df)))

\* approximate_cvd_from_aggtrades: resp is what fetch_klines(symbol, "1m")
\* gives: [ok |-> FALSE] when it raises, else the candles.  An empty frame
\* makes .iloc[-1] raise, which the except turns into None as well.
approximate_cvd_from_aggtrades(resp) ==
    IF ~resp.ok THEN None
    ELSE IF Len(resp.data) = 0 THEN None
    ELSE LET df == resp.data
             delta == [i \in 1..Len(df) |->
                          df[i].taker_buy_base
                              - (df[i].volume - df[i].taker_buy_base)]
         IN  Some(SumTo(delta, 1, Len(df)))

----------------------------------------------------------------------------
(* api/binance.py *)

\* fetch_funding_rate: float(arr[-1]["fundingRate"]) if arr else 0.0
fetch_funding_rate(resp) ==
    IF Len(resp.data) = 0 THEN 0 ELSE resp.data[Len(resp.data)]

\* fetch_open_interest
fetch_open_interest(resp) == resp.data

\* the endpoint urls the fetches pass to rate_limited_request
Urls == {"/fapi/v1/klines", "/fapi/v1/fundingRate"}

\* what requests.get can do: answer 200, answer 451, answer another error
\* status (raise_for_status raises HTTPError), or raise itself (connection
\* error, timeout: a RequestException that is no HTTPError)
Outcomes == {"ok", "451", "http_error", "conn_error"}

\* t ticks later: every age grows, up to MIN_REQUEST_INTERVAL, from where
\* on the code no longer tells ages apart
Later(ages, t) ==
    [u \in Urls |-> IF ages[u] = -1 THEN -1
                    ELSE Min2(ages[u] + t, MIN_REQUEST_INTERVAL)]

\* a variant that waits the same time after every attempt
BackoffFlat(outcome, attempt) ==
    IF outcome = "451" THEN ThrottleWaitTicks ELSE ErrorWaitTicks

\* the sleep after a rejected attempt: (attempt + 1) * 2 s after a 451,
\* (attempt + 1) * 1 s after an HTTPError
Backoff(outcome, attempt) ==
    IF outcome = "451" THEN (attempt + 1) * ThrottleWaitTicks
    ELSE (attempt + 1) * ErrorWaitTicks

NoCall ==
    [pc |-> "idle", url |-> "/fapi/v1/klines", attempt |-> 0, sends |-> 0,
     waits |-> <<>>, result |-> "none", status |-> "none"]

IdleRL ==
    /\ LAST_REQUEST_TIME = [u \in Urls |-> -1]
    /\ sent_age = [u \in Urls |-> -1]
    /\ gap = -1
    /\ call = NoCall

\* rate_limited_request(url), lines 23-27: sleep until MIN_REQUEST_INTERVAL
\* has passed since the stamp of url, if it has one
EnterRequest ==
    /\ call.pc = "idle"
    /\ \E u \in Urls :
        LET since == LAST_REQUEST_TIME[u]
            wait == IF since # -1 /\ since < MIN_REQUEST_INTERVAL
                    THEN MIN_REQUEST_INTERVAL - since ELSE 0
        IN  /\ LAST_REQUEST_TIME' = Later(LAST_REQUEST_TIME, wait)
            /\ sent_age' = Later(sent_age, wait)
            /\ call' = [NoCall EXCEPT !.pc = "request", !.url = u]
    /\ UNCHANGED <<gap, feed, rec, appVars, rankVars, atrVars>>

\* one turn of `for attempt in range(max_retries)`, and the raise after
\* the loop when it was the last: the request is sent, answered after
\* some latency, stamped unless requests.get raised, and then returned,
\* retried after a sleep, or given up.
Attempt ==
    /\ call.pc = "request"
    /\ \E o \in Outcomes, latency \in 0..MaxLatency :
        LET u == call.url
            last == call.attempt = max_retries - 1
            answered == Later([sent_age EXCEPT ![u] = 0], latency)
            stamped == IF o = "conn_error" THEN Later(LAST_REQUEST_TIME, latency)
                       ELSE [Later(LAST_REQUEST_TIME, latency) EXCEPT ![u] = 0]
            sleeps == o = "451" \/ (o = "http_error" /\ ~last)
            wait == IF sleeps THEN Backoff(o, call.attempt) ELSE 0
        IN  /\ gap' = sent_age[u]
            /\ sent_age' = Later(answered, wait)
            /\ LAST_REQUEST_TIME' = Later(stamped, wait)
            /\ call' = [call EXCEPT
                  !.sends = @ + 1,
                  !.status = o,
                  !.waits = IF sleeps THEN Append(@, [outcome |-> o, wait |-> wait])
                            ELSE @,
                  !.attempt = IF sleeps /\ ~last THEN @ + 1 ELSE @,
                  !.pc = IF sleeps /\ ~last THEN "request" ELSE "idle",
                  !.result = IF o = "ok" THEN "returned"
                             ELSE IF sleeps /\ ~last THEN "none"
                             ELSE "raised"]
    /\ UNCHANGED <<feed, rec, appVars, rankVars, atrVars>>

\* the caller does something else for a tick
TimePasses ==
    /\ call.pc = "idle"
    /\ LAST_REQUEST_TIME' = Later(LAST_REQUEST_TIME, 1)
    /\ sent_age' = Later(sent_age, 1)
    /\ UNCHANGED <<call, gap, feed, rec, appVars, rankVars, atrVars>>

----------------------------------------------------------------------------
(* utils/signals.py: generate_recommendation *)

\* a variant with non-strict comparisons
DecideNonStrict(funding, cvd) ==
    IF funding <= -FundingThreshold /\ (cvd # None /\ cvd[1] <= 0)
    THEN "SCALP LONG"
    ELSE IF funding >= FundingThreshold /\ (cvd # None /\ cvd[1] >= 0)
    THEN "SCALP SHORT"
    ELSE "WAIT"

\* the if / elif / else on funding and cvd
Decide(funding, cvd) ==
    IF funding < -FundingThreshold /\ (cvd # None /\ cvd[1] < 0)
    THEN "SCALP LONG"
    ELSE IF funding > FundingThreshold /\ (cvd # None /\ cvd[1] > 0)
    THEN "SCALP SHORT"
    ELSE "WAIT"

\* atr_pct = recent_atr / price if price else 0.0
AtrPct(recent_atr, price) ==
    IF price # 0 THEN Rat(recent_atr.num, recent_atr.den * price)
    ELSE Rat(0, 1)

\* a variant without the 5% cap
TpOffsetNoCap(atr_pct) == PyMax(Pct(TpFloorPct), RScale(TpFactor, atr_pct))

\* max(0.01, min(0.05, atr_pct * 5))
TpOffset(atr_pct) ==
    PyMax(Pct(TpFloorPct), PyMin(Pct(TpCapPct), RScale(TpFactor, atr_pct)))

\* max(0.01, min(0.03, atr_pct * 3))
SlOffset(atr_pct) ==
    PyMax(Pct(SlFloorPct), PyMin(Pct(SlCapPct), RScale(SlFactor, atr_pct)))

OnePlus(f) == Rat(f.den + f.num, f.den)
OneMinus(f) == Rat(f.den - f.num, f.den)

\* a variant whose SCALP SHORT branch repeats the signs of SCALP LONG
LevelsShortNotMirrored(signal, price, atr_pct) ==
    IF signal \in {"SCALP LONG", "SCALP SHORT"}
    THEN [entry |-> Some(price),
          tp |-> Some(FMul(price, OnePlus(TpOffset(atr_pct)))),
          sl |-> Some(FMul(price, OneMinus(SlOffset(atr_pct)))),
          reason |-> "Funding + pressure"]
    ELSE [entry |-> None, tp |-> None, sl |-> None,
          reason |-> "No clear condition"]

\* entry, tp, sl and the reason of the branch taken
Levels(signal, price, atr_pct) ==
    IF signal = "SCALP LONG"
    THEN [entry |-> Some(price),
          tp |-> Some(FMul(price, OnePlus(TpOffset(atr_pct)))),
          sl |-> Some(FMul(price, OneMinus(SlOffset(atr_pct)))),
          reason |-> "Funding negative + selling pressure"]
    ELSE IF signal = "SCALP SHORT"
    THEN [entry |-> Some(price),
          tp |-> Some(FMul(price, OneMinus(TpOffset(atr_pct)))),
          sl |-> Some(FMul(price, OnePlus(SlOffset(atr_pct)))),
          reason |-> "Funding positive + buying pressure"]
    ELSE [entry |-> None, tp |-> None, sl |-> None,
          reason |-> IF RLt(Pct(HighVolPct), atr_pct)
                     THEN "High volatility"
                     ELSE "No clear condition"]

\* Python truth value of an optional number: None and 0.0 are false
Truthy(x) == x # None /\ x[1] # 0

\* the rr block: [raised, rr].  potential / loss is
\* (tp - entry) / |sl - entry| (entry cancels); with loss = 0 the
\* expression is round(None, 2), which raises TypeError.  With sl = inf
\* the loss is inf and potential / loss is 0.0; with tp = inf the
\* potential is inf and so is round(potential / loss, 2).
RiskReward(signal, entry, tp, sl) ==
    IF Truthy(entry) /\ Truthy(tp) /\ Truthy(sl)
    THEN LET e == entry[1]
             gain == IF signal = "SCALP LONG" THEN tp[1] - e ELSE e - tp[1]
             loss == Abs(sl[1] - e)
         IN  IF sl[1] = Inf THEN [raised |-> FALSE, rr |-> Some(0)]
             ELSE IF tp[1] = Inf THEN [raised |-> FALSE, rr |-> Some(Inf)]
             ELSE IF loss # 0
             THEN [raised |-> FALSE,
                   rr |-> Some(RoundHalfEven(100 * gain, loss))]
             ELSE [raised |-> TRUE, rr |-> None]
    ELSE [raised |-> FALSE, rr |-> None]

\* except Exception as e: return {"symbol": symbol, "error": str(e)}
ErrorRecord(symbol, e) == [symbol |-> symbol, error |-> e]

\* whether the fetches and the indicator computation before the decision
\* succeed: fetch_klines, kl.iloc[-1] (IndexError on an empty frame),
\* fetch_funding_rate, fetch_open_interest
FetchesOk(f) ==
    /\ f.klines.ok
    /\ Len(f.klines.data) > 0
    /\ f.funding.ok
    /\ f.oi.ok

\* the locals of generate_recommendation up to the rr block
Locals(f) ==
    LET kl == f.klines.data
        last == kl[Len(kl)]
        recent_atr == atr(kl, AtrPeriod)
        funding == fetch_funding_rate(f.funding)
        oi == fetch_open_interest(f.oi)
        cvd == approximate_cvd_from_aggtrades(f.cvd)
        price == last.close
        atr_pct == AtrPct(recent_atr, price)
        signal == Decide(funding, cvd)
        lv == Levels(signal, price, atr_pct)
    IN  [price |-> price, funding |-> funding, oi |-> oi, cvd |-> cvd,
         atr |-> recent_atr, atr_pct |-> atr_pct, signal |-> signal,
         reason |-> lv.reason, entry |-> lv.entry, tp |-> lv.tp,
         sl |-> lv.sl]

\* generate_recommendation(symbol, tf); f holds what the fetches return.
\* The "ts" field (datetime.utcnow()) is left out: nothing reads it.
generate_recommendation(symbol, f) ==
    IF ~f.klines.ok THEN ErrorRecord(symbol, "fetch_klines")
    ELSE IF Len(f.klines.data) = 0 THEN ErrorRecord(symbol, "IndexError")
    ELSE IF ~f.funding.ok THEN ErrorRecord(symbol, "fetch_funding_rate")
    ELSE IF ~f.oi.ok THEN ErrorRecord(symbol, "fetch_open_interest")
    ELSE
    LET v == Locals(f)
        rr == RiskReward(v.signal, v.entry, v.tp, v.sl)
    IN  IF rr.raised THEN ErrorRecord(symbol, "TypeError")
        ELSE [symbol |-> symbol, price |-> v.price, funding |-> v.funding,
              oi |-> v.oi, cvd |-> v.cvd, atr |-> v.atr,
              atr_pct |-> v.atr_pct, signal |-> v.signal,
              reason |-> v.reason, entry |-> v.entry, tp |-> v.tp,
              sl |-> v.sl, rr |-> rr.rr]

IsError(r) == "error" \in DOMAIN r

----------------------------------------------------------------------------
(* What the exchange can answer *)

\* candles [high, low, close] of the timeframe series: a close of 0, a
\* close of one unit, and ordinary prices with a true range of 2%, 0.12%
\* and 0.48% of the close
PriceCandles ==
    { [high |-> 2, low |-> 0, close |-> 0],
      [high |-> 1, low |-> 1, close |-> 1],
      [high |-> 101, low |-> 99, close |-> 100],
      [high |-> 10012, low |-> 10000, close |-> 10000],
      [high |-> 10048, low |-> 10000, close |-> 10000] }

\* 1-minute candles [volume, taker_buy_base]: all sold, all bought
FlowCandles ==
    { [volume |-> 50, taker_buy_base |-> 0],
      [volume |-> 50, taker_buy_base |-> 50] }

SeqsUpTo(S, n) == UNION { [1..k -> S] : k \in 0..n }

Failed == [ok |-> FALSE, data |-> <<>>]
Got(d) == [ok |-> TRUE, data |-> d]

KlinesAnswers == {Failed} \cup { Got(s) : s \in SeqsUpTo(PriceCandles, MaxCandles) }
CvdAnswers == {Failed} \cup { Got(s) : s \in SeqsUpTo(FlowCandles, MaxCvdCandles) }
FundingRates == {-10, -5, 1, 5, 10}
FundingAnswers == {Failed, Got(<<>>)} \cup { Got(<<x>>) : x \in FundingRates }
OiAnswers == {[ok |-> FALSE, data |-> 0], [ok |-> TRUE, data |-> 500]}

Feeds == [klines : KlinesAnswers, funding : FundingAnswers,
          oi : OiAnswers, cvd : CvdAnswers]

RecSymbol == "BTCUSDT"

----------------------------------------------------------------------------
(* Symbols as character strings *)

\* A ticker symbol is the sequence of its characters, so that endswith and
\* the substring test are computed on the text.
USDT == <<"U", "S", "D", "T">>
PERP == <<"P", "E", "R", "P">>

\* s.endswith(suf)
EndsWith(s, suf) ==
    /\ Len(suf) <= Len(s)
    /\ SubSeq(s, Len(s) - Len(suf) + 1, Len(s)) = suf

\* sub in s, for strings
Contains(s, sub) ==
    \E i \in 1..(Len(s) - Len(sub) + 1) : SubSeq(s, i, i + Len(sub) - 1) = sub

\* seq[:n]
Slice(seq, n) == SubSeq(seq, 1, Min2(n, Len(seq)))

\* config.FALLBACK_SYMBOLS
FALLBACK_SYMBOLS ==
    << <<"B", "T", "C">> \o USDT, <<"E", "T", "H">> \o USDT,
       <<"X", "R", "P">> \o USDT, <<"B", "N", "B">> \o USDT,
       <<"S", "O", "L">> \o USDT, <<"L", "I", "N", "K">> \o USDT,
       <<"A", "D", "A">> \o USDT, <<"D", "O", "G", "E">> \o USDT,
       <<"L", "T", "C">> \o USDT, <<"M", "A", "T", "I", "C">> \o USDT >>

\* utils/data.py get_fallback_pairs: reliable_pairs[:n]
get_fallback_pairs(n) ==
    Slice(<< <<"B", "T", "C">> \o USDT, <<"E", "T", "H">> \o USDT,
             <<"B", "N", "B">> \o USDT, <<"X", "R", "P">> \o USDT,
             <<"S", "O", "L">> \o USDT, <<"A", "D", "A">> \o USDT,
             <<"D", "O", "G", "E">> \o USDT, <<"A", "V", "A", "X">> \o USDT,
             <<"D", "O", "T">> \o USDT, <<"M", "A", "T", "I", "C">> \o USDT >>, n)

\* utils/data.py excluded_symbols
excluded_symbols ==
    { <<"C", "O", "C", "O", "S">> \o USDT, <<"B", "E", "A", "M">> \o USDT }

----------------------------------------------------------------------------
(* get_top_n_pairs_by_volatility *)

\* A ticker is a dict with the keys symbol, priceChangePercent and volume.
\* priceChangePercent is Some(v), v in percent, or None when the text of
\* the field is not a number (astype(float) then raises).  The answer of
\* fetch_24hr_ticker is [ok |-> FALSE] when the request or r.json()
\* raises, and otherwise either a list of tickers or a payload that is no
\* list of dicts (list |-> FALSE: an error object, whose iteration yields
\* strings and makes t["symbol"] raise).

\* the permutations of 1..n
Perms(n) == { p \in [1..n -> 1..n] : \A i, j \in 1..n : i # j => p[i] # p[j] }

\* df["abs_change"]
AbsChange(t) == Abs(t.priceChangePercent[1])

\* df.sort_values("abs_change", ascending=False): the default sort kind
\* (quicksort) is not stable, so rows of equal abs_change come in any order
sort_values_abs_change(df) ==
    { [i \in 1..Len(df) |-> df[p[i]]] :
        p \in { q \in Perms(Len(df)) :
                  \A i \in 1..(Len(df) - 1) :
                      AbsChange(df[q[i]]) >= AbsChange(df[q[i + 1]]) } }

\* df.sort_values(["abs_change", "volume"], ascending=[False, False]):
\* a lexsort, which is stable: row i comes after the rows that beat it and
\* after the earlier rows that equal it on both keys
sort_values_abs_change_volume(df) ==
    LET Beats(j, i) ==
            \/ AbsChange(df[j]) > AbsChange(df[i])
            \/ /\ AbsChange(df[j]) = AbsChange(df[i])
               /\ \/ df[j].volume > df[i].volume
                  \/ df[j].volume = df[i].volume /\ j < i
        Place(i) == Cardinality({ j \in 1..Len(df) : Beats(j, i) }) + 1
    IN  [k \in 1..Len(df) |-> df[CHOOSE i \in 1..Len(df) : Place(i) = k]]

\* top["symbol"].tolist()
SymbolsOf(df) == [i \in 1..Len(df) |-> df[i].symbol]

\* a variant whose empty selection is ranked like any other
get_top_n_ranking_empty_selection(resp, n) ==
    IF ~resp.ok \/ ~resp.list THEN { Slice(FALLBACK_SYMBOLS, n) }
    ELSE LET fut == SelectSeq(resp.data,
                        LAMBDA t : /\ EndsWith(t.symbol, USDT)
                                   /\ "PERP" \notin DOMAIN t)
         IN  IF \E i \in 1..Len(fut) : fut[i].priceChangePercent = None
             THEN { Slice(FALLBACK_SYMBOLS, n) }
             ELSE { SymbolsOf(Slice(top, n)) : top \in sort_values_abs_change(fut) }

\* utils/signals.py get_top_n_pairs_by_volatility (the version the
\* dashboard imports): the set of lists a call can return.  The filter
\* tests `"PERP" not in t` on the ticker dict t, that is on its keys.
\* An empty selection makes df["priceChangePercent"] raise KeyError.
get_top_n_pairs_by_volatility(resp, n) ==
    IF ~resp.ok \/ ~resp.list THEN { Slice(FALLBACK_SYMBOLS, n) }
    ELSE LET fut == SelectSeq(resp.data,
                        LAMBDA t : /\ EndsWith(t.symbol, USDT)
                                   /\ "PERP" \notin DOMAIN t)
         IN  IF Len(fut) = 0 THEN { Slice(FALLBACK_SYMBOLS, n) }
             ELSE IF \E i \in 1..Len(fut) : fut[i].priceChangePercent = None
             THEN { Slice(FALLBACK_SYMBOLS, n) }
             ELSE { SymbolsOf(Slice(top, n)) : top \in sort_values_abs_change(fut) }

\* utils/data.py get_top_n_pairs_by_volatility (not imported by the
\* dashboard): the list a call returns
data_get_top_n_pairs_by_volatility(resp, n) ==
    IF ~resp.ok \/ ~resp.list THEN get_fallback_pairs(n)
    ELSE LET fut == SelectSeq(resp.data,
                        LAMBDA t : /\ EndsWith(t.symbol, USDT)
                                   /\ ~Contains(t.symbol, PERP)
                                   /\ t.symbol \notin excluded_symbols
                                   /\ t.volume > 0)
         IN  IF Len(fut) = 0 THEN get_fallback_pairs(n)
             ELSE IF \E i \in 1..Len(fut) : fut[i].priceChangePercent = None
             THEN get_fallback_pairs(n)
             ELSE SymbolsOf(Slice(Slice(sort_values_abs_change_volume(fut), n * 2), n))

\* the tickers of the feed
Ticker(sym, change, vol) ==
    [symbol |-> sym, priceChangePercent |-> change, volume |-> vol]
TickerB == Ticker(<<"B">> \o USDT, Some(-8), 5)
TickerC == Ticker(<<"C">> \o USDT, Some(8), 9)
TickerSet ==
    { TickerB, TickerC,
      Ticker(<<"A">> \o USDT, Some(3), 0),
      Ticker(PERP \o USDT, Some(9), 4),
      Ticker(<<"C", "O", "C", "O", "S">> \o USDT, Some(-9), 7),
      Ticker(<<"E", "T", "H", "B", "T", "C">>, Some(10), 3),
      Ticker(<<"D">> \o USDT, None, 1) }

TickerAnswers ==
    { [ok |-> FALSE, list |-> FALSE, data |-> <<>>],
      [ok |-> TRUE, list |-> FALSE, data |-> <<>>] }
    \cup { [ok |-> TRUE, list |-> TRUE, data |-> s] :
             s \in SeqsUpTo(TickerSet, MaxTickers) }

IdleRank ==
    /\ tickers = [ok |-> FALSE, list |-> FALSE, data |-> <<>>]
    /\ top_n = 1
    /\ ranked = <<>>

IdleAtr ==
    /\ atr_df = <<>>
    /\ atr_period = 1
    /\ atr_out = <<>>

IdleRec ==
    /\ feed = [klines |-> Got(<<[high |-> 101, low |-> 99, close |-> 100]>>),
               funding |-> Got(<<-10>>),
               oi |-> [ok |-> TRUE, data |-> 500],
               cvd |-> Failed]
    /\ rec = <<>>

IdlePure == IdleRank /\ IdleAtr /\ IdleRL

----------------------------------------------------------------------------
(* app.py: session state *)

Symbols == {"BTCUSDT", "ETHUSDT"}
HistSymbol == "BTCUSDT"
Actionable == {"SCALP LONG", "SCALP SHORT"}

\* st.session_state["last_signals"] = {}
EmptyMap == [s \in {} |-> "WAIT"]

----------------------------------------------------------------------------------------------------------------------------------------
(* app.py: main_loop *)

\* r.get("signal"): error records have none
SignalOf(r) == IF "signal" \in DOMAIN r THEN r.signal ELSE "None"

\* st.session_state["last_signals"].get(s)
Last(map, s) == IF s \in DOMAIN map THEN map[s] ELSE "None"

\* a variant that does not compare with the stored value
TransitionIgnoringStored(map, s, sig) == sig \in Actionable

\* whether the notification block sends an alert for (s, sig):
\* sig in ["SCALP LONG", "SCALP SHORT"] and last != sig
Transition(map, s, sig) == sig \in Actionable /\ Last(map, s) # sig

\* a variant that keeps the entry on WAIT
UpdateSignalsNoPop(map, s, sig) ==
    IF sig \in Actionable /\ Last(map, s) # sig
    THEN [x \in DOMAIN map \cup {s} |-> IF x = s THEN sig ELSE map[x]]
    ELSE map

\* a variant that stores whatever signal differs from the stored one
UpdateSignalsStoreAny(map, s, sig) ==
    IF Last(map, s) # sig
    THEN [x \in DOMAIN map \cup {s} |-> IF x = s THEN sig ELSE map[x]]
    ELSE map

\* a variant that drops the entry on every result that is not actionable
UpdateSignalsPopUnlessActionable(map, s, sig) ==
    IF sig \in Actionable
    THEN IF Last(map, s) # sig
         THEN [x \in DOMAIN map \cup {s} |-> IF x = s THEN sig ELSE map[x]]
         ELSE map
    ELSE [x \in DOMAIN map \ {s} |-> map[x]]

\* the last_signals map after the notification block has processed
\* (s, sig): the store of a new actionable signal, the pop on WAIT
UpdateSignals(map, s, sig) ==
    IF sig \in Actionable
    THEN IF Last(map, s) # sig
         THEN [x \in DOMAIN map \cup {s} |-> IF x = s THEN sig ELSE map[x]]
         ELSE map
    ELSE IF s \in DOMAIN map /\ sig = "WAIT"
         THEN [x \in DOMAIN map \ {s} |-> map[x]]
         ELSE map

\* the sequence of signals whose alerts are recorded in hist
Scenario == <<"SCALP LONG", "SCALP LONG", "WAIT", "SCALP LONG">>

\* hist after one more processed signal: appended while the signals follow
\* Scenario, kept once Scenario is complete, dropped when they leave it
Record(h, sig, send) ==
    IF Len(h.calls) = Len(Scenario) THEN h
    ELSE IF h.on /\ sig = Scenario[Len(h.calls) + 1]
    THEN [h EXCEPT !.calls = Append(h.calls, <<sig, send>>)]
    ELSE [on |-> FALSE, calls |-> <<>>]

\* what get_top_n_pairs_by_volatility(n) can return: at most n distinct
\* symbols, at least one
RankedLists(n) ==
    { l \in SeqsUpTo(Symbols, n) :
        /\ Len(l) >= 1
        /\ \A i, j \in 1..Len(l) : i # j => l[i] # l[j] }

\* the answers of the exchange during an evaluation cycle: a long, a short
\* and a wait setup, and one failure of each fetch
Candle100 == [high |-> 101, low |-> 99, close |-> 100]
Sold == [volume |-> 50, taker_buy_base |-> 0]
Bought == [volume |-> 50, taker_buy_base |-> 50]
OiOk == [ok |-> TRUE, data |-> 500]
OiFailed == [ok |-> FALSE, data |-> 0]
Setup(funding, cvd) ==
    [klines |-> Got(<<Candle100>>), funding |-> Got(<<funding>>),
     oi |-> OiOk, cvd |-> cvd]
CycleFeeds ==
    { Setup(-10, Got(<<Sold>>)),
      Setup(10, Got(<<Bought>>)),
      Setup(-10, Failed),
      [Setup(-10, Got(<<Sold>>)) EXCEPT !.klines = Failed],
      [Setup(-10, Got(<<Sold>>)) EXCEPT !.klines = Got(<<>>)],
      [Setup(-10, Got(<<Sold>>)) EXCEPT !.funding = Failed],
      [Setup(-10, Got(<<Sold>>)) EXCEPT !.oi = OiFailed] }

\* the session state of a fresh session: last_signals = {}, last_update = 0
InitApp ==
    /\ pc = "start"
    /\ elapsed = RefreshTicks
    /\ notify = FALSE
    /\ manual_refresh = FALSE
    /\ last_signals = EmptyMap
    /\ symbols = <<>>
    /\ results = <<>>
    /\ idx = 1
    /\ alerts = <<>>
    /\ hist = [on |-> TRUE, calls |-> <<>>]
    /\ failed = EmptyMap
    /\ absent = EmptyMap

\* a variant that starts a cycle in every run of the script
RefreshDueAlways(since, button) == TRUE

\* current_time - last_update >= refresh or manual_refresh
RefreshDue(since, button) == since >= RefreshTicks \/ button

\* absent at the start of a cycle that ranks the symbols l
Missing(l) ==
    [s \in DOMAIN absent
              \cup (DOMAIN last_signals \ { l[i] : i \in 1..Len(l) }) |->
        IF s \in DOMAIN absent THEN absent[s] ELSE last_signals[s]]

\* a variant that forgets the stored signal of the symbols it does not rank
RunScriptPruning ==
    /\ pc = "start"
    /\ \E n \in BOOLEAN, m \in BOOLEAN :
        /\ notify' = n
        /\ manual_refresh' = m
        /\ IF RefreshDue(elapsed, m)
           THEN /\ elapsed' = 0
                /\ \E l \in RankedLists(TopN) :
                      /\ symbols' = l
                      /\ absent' = Missing(l)
                      /\ last_signals' =
                            [s \in DOMAIN last_signals
                                     \cap { l[i] : i \in 1..Len(l) } |->
                                last_signals[s]]
                /\ results' = <<>>
                /\ pc' = "recommend"
           ELSE /\ pc' = "sleep"
                /\ UNCHANGED <<elapsed, symbols, results, absent, last_signals>>
    /\ UNCHANGED <<feed, rec, idx, alerts, hist, failed, pureVars>>

\* The script from its top to the first recommendation: the widgets are
\* read, main_loop tests the refresh condition and, when it holds, stamps
\* last_update and ranks the pairs.
RunScript ==
    /\ pc = "start"
    /\ \E n \in BOOLEAN, m \in BOOLEAN :
        /\ notify' = n
        /\ manual_refresh' = m
        /\ IF RefreshDue(elapsed, m)
           THEN /\ elapsed' = 0
                /\ \E l \in RankedLists(TopN) :
                      /\ symbols' = l
                      /\ absent' = Missing(l)
                /\ results' = <<>>
                /\ pc' = "recommend"
           ELSE /\ pc' = "sleep"
                /\ UNCHANGED <<elapsed, symbols, results, absent>>
    /\ UNCHANGED <<feed, rec, last_signals, idx, alerts, hist, failed, pureVars>>

\* a variant in which an error record ends the batch
RecommendAbortOnError ==
    /\ pc = "recommend"
    /\ \E f \in CycleFeeds :
        LET res == generate_recommendation(symbols[Len(results) + 1], f)
        IN  /\ feed' = f
            /\ results' = Append(results, res)
            /\ pc' = IF IsError(res) \/ Len(results) + 1 = Len(symbols)
                     THEN "display" ELSE "recommend"
    /\ UNCHANGED <<rec, elapsed, notify, manual_refresh, last_signals,
                   symbols, idx, alerts, hist, failed, absent, pureVars>>

\* one turn of `for s in symbols`: res = generate_recommendation(s)
Recommend ==
    /\ pc = "recommend"
    /\ \E f \in CycleFeeds :
        /\ feed' = f
        /\ results' = Append(results,
                             generate_recommendation(symbols[Len(results) + 1], f))
    /\ pc' = IF Len(results) + 1 = Len(symbols) THEN "display" ELSE "recommend"
    /\ UNCHANGED <<rec, elapsed, notify, manual_refresh, last_signals,
                   symbols, idx, alerts, hist, failed, absent, pureVars>>

\* df = pd.DataFrame(results); df[cols] raises KeyError when every result
\* is an error record (the frame then has no "price" column); the except
\* of main_loop reports it and the notification block is skipped.
Display ==
    /\ pc = "display"
    /\ pc' = IF \A i \in 1..Len(results) : IsError(results[i]) THEN "sleep"
             ELSE IF notify THEN "notify"
             ELSE "sleep"
    /\ UNCHANGED <<feed, rec, elapsed, notify, manual_refresh, last_signals,
                   symbols, results, idx, alerts, hist, failed, absent, pureVars>>

\* m without its entry for s
Without(m, s) == [x \in DOMAIN m \ {s} |-> m[x]]

\* m with the entry s |-> v
With(m, s, v) == [x \in DOMAIN m \cup {s} |-> IF x = s THEN v ELSE m[x]]

\* failed after the block has processed (s, sig): a failed send is
\* recorded, and the record goes when an alert for s is delivered or a
\* signal other than the recorded one is processed (error records, which
\* have no signal, leave it)
Unsent(s, sig, send, ok) ==
    IF send THEN (IF ok THEN Without(failed, s) ELSE With(failed, s, sig))
    ELSE IF sig = "None" \/ (s \in DOMAIN failed /\ failed[s] = sig) THEN failed
    ELSE Without(failed, s)

\* a variant that stores the new signal only once its alert is delivered
NotifyStoreOnSuccess ==
    /\ pc = "notify"
    /\ LET r == results[idx]
           s == r.symbol
           sig == SignalOf(r)
           send == Transition(last_signals, s, sig)
       IN  /\ IF send
              THEN \E ok \in BOOLEAN :
                      /\ alerts' = Append(alerts,
                                          [symbol |-> s, signal |-> sig, ok |-> ok])
                      /\ failed' = Unsent(s, sig, send, ok)
                      /\ last_signals' = IF ok THEN UpdateSignals(last_signals, s, sig)
                                         ELSE last_signals
              ELSE /\ alerts' = alerts
                   /\ failed' = Unsent(s, sig, send, FALSE)
                   /\ last_signals' = UpdateSignals(last_signals, s, sig)
           /\ hist' = IF s = HistSymbol /\ sig # "None"
                      THEN Record(hist, sig, send)
                      ELSE hist
           /\ absent' = Without(absent, s)
    /\ idx' = idx + 1
    /\ pc' = IF idx = Len(results) THEN "sleep" ELSE "notify"
    /\ UNCHANGED <<feed, rec, elapsed, notify, manual_refresh, symbols, results,
                   pureVars>>

\* one turn of `for r in results` of the notification block; ok is what
\* send_telegram_message returns.  The store of line 274 comes before the
\* send of line 287, and send_telegram_message returns False instead of
\* raising, so the turn ends with the signal stored whatever ok is.  (The
\* message formats entry, tp and sl, which are numbers whenever the signal
\* is actionable.)
Notify ==
    /\ pc = "notify"
    /\ LET r == results[idx]
           s == r.symbol
           sig == SignalOf(r)
           send == Transition(last_signals, s, sig)
       IN  /\ last_signals' = UpdateSignals(last_signals, s, sig)
           /\ IF send
              THEN \E ok \in BOOLEAN :
                      /\ alerts' = Append(alerts,
                                          [symbol |-> s, signal |-> sig, ok |-> ok])
                      /\ failed' = Unsent(s, sig, send, ok)
              ELSE /\ alerts' = alerts
                   /\ failed' = Unsent(s, sig, send, FALSE)
           /\ hist' = IF s = HistSymbol /\ sig # "None"
                      THEN Record(hist, sig, send)
                      ELSE hist
           /\ absent' = Without(absent, s)
    /\ idx' = idx + 1
    /\ pc' = IF idx = Len(results) THEN "sleep" ELSE "notify"
    /\ UNCHANGED <<feed, rec, elapsed, notify, manual_refresh, symbols, results,
                   pureVars>>

\* time.sleep(1); st.rerun(): the run ends, its locals and widget values
\* go, the session state stays
Sleep ==
    /\ pc = "sleep"
    /\ elapsed' = Min2(elapsed + 1, RefreshTicks)
    /\ pc' = "start"
    /\ notify' = FALSE
    /\ manual_refresh' = FALSE
    /\ symbols' = <<>>
    /\ results' = <<>>
    /\ idx' = 1
    /\ alerts' = <<>>
    /\ feed' = Setup(-10, Failed)
    /\ UNCHANGED <<rec, last_signals, hist, failed, absent, pureVars>>

Init ==
    /\ feed = Setup(-10, Failed)
    /\ rec = <<>>
    /\ InitApp
    /\ IdlePure

Next == RunScript \/ Recommend \/ Display \/ Notify \/ Sleep

Spec == Init /\ [][Next]_vars

----------------
(* generate_recommendation on every answer of the exchange *)

InitRec ==
    /\ feed \in Feeds
    /\ rec = <<>>
    /\ InitApp
    /\ IdlePure

\* one call generate_recommendation(RecSymbol) on the answers in feed
Evaluate ==
    /\ rec = <<>>
    /\ rec' = <<generate_recommendation(RecSymbol, feed)>>
    /\ UNCHANGED <<feed, appVars, pureVars>>

NextRec == Evaluate

SpecRec == InitRec /\ [][NextRec]_vars

----------------------------------------------------------------------------
(* generate_recommendation on ordinary prices, on prices of a few units,  *)
(* where the products price * (1 +/- offset) are rounded, and on prices    *)
(* next to the largest float, where they overflow                          *)

\* one candle of range 0 or 1 unit closing at p units, with a long or a
\* short setup
LowFeeds ==
    { [klines |-> Got(<<[high |-> p + h, low |-> p, close |-> p]>>),
       funding |-> Got(<<d.funding>>),
       oi |-> [ok |-> TRUE, data |-> 500],
       cvd |-> Got(<<d.flow>>)] :
        p \in 1..MaxLowPrice, h \in 0..1,
        d \in { [funding |-> -10, flow |-> [volume |-> 50, taker_buy_base |-> 0]],
                [funding |-> 10, flow |-> [volume |-> 50, taker_buy_base |-> 50]] } }

\* one candle without range closing within 1% of the largest float, with
\* a long or a short setup
TopFeeds ==
    { [klines |-> Got(<<[high |-> p, low |-> p, close |-> p]>>),
       funding |-> Got(<<d.funding>>),
       oi |-> [ok |-> TRUE, data |-> 500],
       cvd |-> Got(<<d.flow>>)] :
        p \in {FloatMax - 5000, FloatMax},
        d \in { [funding |-> -10, flow |-> [volume |-> 50, taker_buy_base |-> 0]],
                [funding |-> 10, flow |-> [volume |-> 50, taker_buy_base |-> 50]] } }

InitLevels ==
    /\ feed \in Feeds \cup LowFeeds \cup TopFeeds
    /\ rec = <<>>
    /\ InitApp
    /\ IdlePure

SpecLevels == InitLevels /\ [][NextRec]_vars

----------------------------------------------------------------------------
(* get_top_n_pairs_by_volatility on every answer of the ticker feed *)

InitRank ==
    /\ tickers \in TickerAnswers
    /\ top_n \in 1..TopN
    /\ ranked = <<>>
    /\ IdleRec
    /\ InitApp
    /\ IdleAtr
    /\ IdleRL

\* one call of each version on the answer in tickers
Rank ==
    /\ ranked = <<>>
    /\ \E l \in get_top_n_pairs_by_volatility(tickers, top_n) :
          ranked' = << [signals |-> l,
                        data |-> data_get_top_n_pairs_by_volatility(tickers, top_n)] >>
    /\ UNCHANGED <<tickers, top_n, feed, rec, appVars, atrVars, rlVars>>

NextRank == Rank

SpecRank == InitRank /\ [][NextRank]_vars

----------------------------------------------------------------------------
(* atr on every candle frame and period *)

InitAtr ==
    /\ atr_df \in { s \in SeqsUpTo(PriceCandles, MaxSeries) : Len(s) >= 1 }
    /\ atr_period \in 1..MaxPeriod
    /\ atr_out = <<>>
    /\ IdleRec
    /\ InitApp
    /\ IdleRank
    /\ IdleRL

\* one call atr(df, period).iloc[-1]
ComputeAtr ==
    /\ atr_out = <<>>
    /\ atr_out' = <<atr(atr_df, atr_period)>>
    /\ UNCHANGED <<atr_df, atr_period, feed, rec, appVars, rankVars, rlVars>>

NextAtr == ComputeAtr

SpecAtr == InitAtr /\ [][NextAtr]_vars

----------------------------------------------------------------------------
(* rate_limited_request, called again and again *)

InitRL ==
    /\ IdleRL
    /\ IdleRec
    /\ InitApp
    /\ IdleRank
    /\ IdleAtr

NextRL == EnterRequest \/ Attempt \/ TimePasses

SpecRL == InitRL /\ [][NextRL]_vars

\* the call runs on its own thread of control: a turn of the loop that
\* can be taken is taken
FairSpecRL == SpecRL /\ WF_vars(Attempt)

----------------------------------------------------------------------------
(* Properties of the notification block (specification Spec) *)

\* the value stored for the symbol of the result the block is about to
\* process, "None" when there is none
StoredNow ==
    IF results[idx].symbol \in DOMAIN last_signals
    THEN last_signals[results[idx].symbol]
    ELSE "None"

\* C1: a turn of the notification loop sends an alert for its result
\* exactly when the signal of the result is SCALP LONG or SCALP SHORT and
\* differs from the value stored for the symbol (no stored value counts as
\* different); when it sends, the new signal is stored for the symbol; no
\* other step of the script sends an alert.
C1_TransitionExactly ==
    [][/\ pc = "notify" =>
            /\ (alerts' # alerts) <=>
                  /\ SignalOf(results[idx]) \in {"SCALP LONG", "SCALP SHORT"}
                  /\ StoredNow # SignalOf(results[idx])
            /\ (alerts' # alerts) =>
                  /\ results[idx].symbol \in DOMAIN last_signals'
                  /\ last_signals'[results[idx].symbol] = SignalOf(results[idx])
                  /\ Len(alerts') = Len(alerts) + 1
                  /\ alerts'[Len(alerts')].symbol = results[idx].symbol
                  /\ alerts'[Len(alerts')].signal = SignalOf(results[idx])
       /\ pc # "notify" => (alerts' = alerts \/ alerts' = <<>>)]_vars

\* C1 witness: a cycle sent an alert for each of two symbols, and each new
\* signal is stored
C1_Witness ==
    /\ pc = "sleep"
    /\ Len(alerts) = 2
    /\ \A i \in 1..2 : last_signals[alerts[i].symbol] = alerts[i].signal
    /\ alerts[1].signal = "SCALP SHORT"

\* C2: the signals LONG, LONG, WAIT, LONG processed for one symbol from
\* the start of the session send an alert on the first and the fourth
\* only: the alert results are true, false, false, true.
C2_RunTriggersOnce ==
    \A i \in 1..Len(hist.calls) :
        /\ hist.calls[i][1] = <<"SCALP LONG", "SCALP LONG", "WAIT", "SCALP LONG">>[i]
        /\ hist.calls[i][2] = <<TRUE, FALSE, FALSE, TRUE>>[i]

\* C2 witness: the four signals have been processed
C2_Witness == Len(hist.calls) = 4

\* C3: the last-signal map holds only SCALP LONG and SCALP SHORT values,
\* and a turn of the notification loop on a WAIT result for a symbol that
\* has an entry removes the entry and sends no alert.
C3_OnlyActionableStored ==
    /\ [](\A s \in DOMAIN last_signals :
            last_signals[s] \in {"SCALP LONG", "SCALP SHORT"})
    /\ [][(/\ pc = "notify"
           /\ SignalOf(results[idx]) = "WAIT"
           /\ results[idx].symbol \in DOMAIN last_signals)
          => (/\ results[idx].symbol \notin DOMAIN last_signals'
              /\ alerts' = alerts)]_vars

\* C3 witness: LONG, LONG, WAIT were processed for HistSymbol and its
\* entry is gone
C3_Witness ==
    /\ Len(hist.calls) = 3
    /\ HistSymbol \notin DOMAIN last_signals
    /\ pc = "sleep"

\* C10: generate_recommendation returns a record whatever the fetches do:
\* when the candle, funding or open-interest fetch or the indicator
\* computation fails the record holds symbol and error only; the cycle
\* goes on with the remaining symbols, and its results are one record per
\* ranked symbol, in ranking order.
C10_OneRecordPerSymbol ==
    /\ Len(results) <= Len(symbols)
    /\ \A i \in 1..Len(results) : results[i].symbol = symbols[i]
    /\ pc \in {"display", "notify", "sleep"} => Len(results) = Len(symbols)
    /\ (Len(results) > 0 /\ ~FetchesOk(feed)) =>
            DOMAIN results[Len(results)] = {"symbol", "error"}

\* C10 witness: the first symbol of the cycle failed and the second one
\* was evaluated all the same
C10_Witness ==
    /\ pc = "display"
    /\ Len(results) = 2
    /\ IsError(results[1])
    /\ ~IsError(results[2])

----------------------------------------------------------------------------
(* Properties of generate_recommendation (specification SpecRec) *)

\* the mathematical clamp max(lo, min(hi, x)) on fractions
ClampTo(x, lo, hi) == IF RLt(x, lo) THEN lo ELSE IF RLt(hi, x) THEN hi ELSE x

Returned == rec # <<>>
Normal == rec # <<>> /\ ~IsError(rec[1])
IsActionable == Normal /\ rec[1].signal \in {"SCALP LONG", "SCALP SHORT"}

\* the rule of the specification on the fetched funding and cvd
RuleLong(funding, cvd) == funding < -5 /\ cvd # <<>> /\ cvd[1] < 0
RuleShort(funding, cvd) == funding > 5 /\ cvd # <<>> /\ cvd[1] > 0
RuleSignal(funding, cvd) ==
    IF RuleLong(funding, cvd) THEN "SCALP LONG"
    ELSE IF RuleShort(funding, cvd) THEN "SCALP SHORT"
    ELSE "WAIT"

\* C4: on every (funding, cvd) the branch taken is SCALP LONG exactly when
\* funding < -0.0005 and cvd is available and negative, SCALP SHORT exactly
\* when funding > 0.0005 and cvd is available and positive, WAIT
\* otherwise; the two conditions exclude each other; funding = -0.0005,
\* funding = 0.0005, cvd = 0 and a funding inside the dead zone give WAIT.
\* The returned recommendation carries the signal of the branch.
C4_DecisionRule ==
    (Returned /\ FetchesOk(feed)) =>
        LET v == Locals(feed)
        IN  /\ v.signal = RuleSignal(v.funding, v.cvd)
            /\ ~(RuleLong(v.funding, v.cvd) /\ RuleShort(v.funding, v.cvd))
            /\ (v.funding >= -5 /\ v.funding <= 5) => v.signal = "WAIT"
            /\ (v.cvd = <<>> \/ v.cvd = <<0>>) => v.signal = "WAIT"
            /\ Normal =>
                  /\ rec[1].signal = v.signal
                  /\ rec[1].funding = v.funding
                  /\ rec[1].cvd = v.cvd

\* C4 witness: funding exactly -0.0005 with selling pressure gave WAIT
C4_Witness ==
    /\ Normal
    /\ rec[1].funding = -5
    /\ rec[1].cvd # <<>> /\ rec[1].cvd[1] < 0
    /\ rec[1].signal = "WAIT"

CvdFetchFailed == ~feed.cvd.ok \/ Len(feed.cvd.data) = 0

\* C5: when the 1-minute candle fetch fails or returns no candles the cvd
\* is None, not 0, and the recommendation (the other fetches succeeding)
\* is a normal record with cvd None and signal WAIT, whatever the funding.
C5_CvdUnavailable ==
    (Returned /\ CvdFetchFailed) =>
        /\ approximate_cvd_from_aggtrades(feed.cvd) = <<>>
        /\ FetchesOk(feed) =>
              /\ Normal
              /\ rec[1].cvd = <<>>
              /\ rec[1].signal = "WAIT"

\* C5 witness: the cvd fetch raised while funding was below -0.0005
C5_Witness ==
    /\ Normal
    /\ ~feed.cvd.ok
    /\ rec[1].funding < -5
    /\ rec[1].signal = "WAIT"

Present(x) == x # <<>>

\* C7 (as claimed): in every normal recommendation entry, tp, sl and rr
\* are all present or all absent, and present only when the signal is
\* SCALP LONG or SCALP SHORT.
C7_AllOrNone ==
    Normal =>
        LET r == rec[1]
        IN  /\ \/ Present(r.entry) /\ Present(r.tp) /\ Present(r.sl) /\ Present(r.rr)
               \/ ~Present(r.entry) /\ ~Present(r.tp) /\ ~Present(r.sl) /\ ~Present(r.rr)
            /\ Present(r.entry) => r.signal \in {"SCALP LONG", "SCALP SHORT"}

\* C8 (as claimed): when entry, tp and sl are present, entry is not 0 and
\* loss = |(sl - entry) / entry| is 0, the result is a normal
\* recommendation whose rr is None: the rr computation does not raise.
C8_ZeroLossGuarded ==
    (Returned /\ FetchesOk(feed)) =>
        LET v == Locals(feed)
        IN  (/\ Present(v.entry) /\ Present(v.tp) /\ Present(v.sl)
             /\ v.entry[1] # 0
             /\ v.sl[1] - v.entry[1] = 0)
            => (Normal /\ rec[1].rr = <<>>)

\* the answers of the end-to-end scenario: price 100, atr 2, funding
\* -0.001, cvd -50
ExampleFeed ==
    [klines |-> [ok |-> TRUE, data |-> <<[high |-> 101, low |-> 99, close |-> 100]>>],
     funding |-> [ok |-> TRUE, data |-> <<-10>>],
     oi |-> [ok |-> TRUE, data |-> 500],
     cvd |-> [ok |-> TRUE, data |-> <<[volume |-> 50, taker_buy_base |-> 0]>>]]

\* C9: in a SCALP LONG recommendation with price > 0, entry = price,
\* tp = price * (1 + clamp(5 * atr_pct, 0.01, 0.05)),
\* sl = price * (1 - clamp(3 * atr_pct, 0.01, 0.03)) and rr is
\* (tp - entry) / |sl - entry| rounded to two decimals; SCALP SHORT has tp
\* below and sl above the entry by the same offsets and the gain
\* entry - tp; atr_pct is atr / price.  Price 100, atr 2, funding -0.001,
\* cvd -50 give SCALP LONG, tp 105, sl 97, rr 1.67.
C9_Levels ==
    /\ (IsActionable /\ rec[1].price > 0) =>
        LET r == rec[1]
            long == r.signal = "SCALP LONG"
            ot == ClampTo(RScale(5, r.atr_pct), Rat(1, 100), Rat(5, 100))
            os == ClampTo(RScale(3, r.atr_pct), Rat(1, 100), Rat(3, 100))
            e == r.entry[1]
            gain == IF long THEN r.tp[1] - e ELSE e - r.tp[1]
            loss == Abs(r.sl[1] - e)
        IN  /\ REq(r.atr_pct, Rat(r.atr.num, r.atr.den * r.price))
            /\ r.entry = <<r.price>>
            /\ r.tp[1] * ot.den
                 = r.price * (IF long THEN ot.den + ot.num ELSE ot.den - ot.num)
            /\ r.sl[1] * os.den
                 = r.price * (IF long THEN os.den - os.num ELSE os.den + os.num)
            /\ r.rr # <<>>
            /\ 2 * Abs(r.rr[1] * loss - 100 * gain) <= loss
    /\ (Returned /\ feed = ExampleFeed) =>
            /\ Normal
            /\ rec[1].signal = "SCALP LONG"
            /\ rec[1].entry = <<100>>
            /\ rec[1].tp = <<105>>
            /\ rec[1].sl = <<97>>
            /\ rec[1].rr = <<167>>

\* C9 witness: the end-to-end scenario was evaluated
C9_Witness ==
    /\ Returned
    /\ feed = ExampleFeed
    /\ rec[1].rr = <<167>>

----------------------------------------------------------------------------
(* Properties of the ranker (specification SpecRank) *)

\* the tickers a version of the ranker keeps: those whose symbol ends with
\* USDT for utils/signals.py, and for utils/data.py those that moreover
\* have no PERP in the symbol, are not excluded and have a volume
SignalsCandidates ==
    SelectSeq(tickers.data, LAMBDA t : EndsWith(t.symbol, USDT))
DataCandidates ==
    SelectSeq(tickers.data,
              LAMBDA t : /\ EndsWith(t.symbol, USDT)
                         /\ ~Contains(t.symbol, PERP)
                         /\ t.symbol \notin excluded_symbols
                         /\ t.volume > 0)

\* the feed is unreachable or malformed for a version that keeps cands, or
\* its filter leaves nothing
MustFallBack(cands) ==
    \/ ~tickers.ok
    \/ ~tickers.list
    \/ Len(cands) = 0
    \/ \E i \in 1..Len(cands) : cands[i].priceChangePercent = <<>>

\* C11: a call of the ranker returns (it never raises), and what it
\* returns has at least one and at most n symbols (n >= 1); when the
\* ticker feed is unreachable or malformed, or the filter leaves no
\* candidate, the list is the first n entries of the fixed fallback list.
\* Both versions of the function are covered, each with its own filter and
\* its own fallback list.
C11_FallbackNeverEmpty ==
    /\ ranked = <<>> => ENABLED Rank
    /\ ranked # <<>> =>
        /\ Len(ranked[1].signals) \in 1..top_n
        /\ Len(ranked[1].data) \in 1..top_n
        /\ MustFallBack(SignalsCandidates) =>
              ranked[1].signals = SubSeq(FALLBACK_SYMBOLS, 1, top_n)
        /\ MustFallBack(DataCandidates) =>
              ranked[1].data = get_fallback_pairs(top_n)

\* C11 witness: a reachable feed whose tickers all fail the filters, asked
\* for two symbols, gave the first two fallback symbols
C11_Witness ==
    /\ ranked # <<>>
    /\ top_n = 2
    /\ tickers.ok /\ tickers.list /\ Len(tickers.data) = 2
    /\ Len(SignalsCandidates) = 0
    /\ Len(ranked[1].signals) = 2
    /\ ranked[1].signals[2] = <<"E", "T", "H", "U", "S", "D", "T">>
    /\ ranked[1].data[2] = <<"E", "T", "H", "U", "S", "D", "T">>

\* the ticker of a returned symbol
TickerOf(sym) ==
    CHOOSE t \in { tickers.data[i] : i \in 1..Len(tickers.data) } : t.symbol = sym

\* ticker a ranks before ticker b, or level with it
RanksNoLower(a, b) ==
    \/ Abs(a.priceChangePercent[1]) > Abs(b.priceChangePercent[1])
    \/ /\ Abs(a.priceChangePercent[1]) = Abs(b.priceChangePercent[1])
       /\ a.volume >= b.volume

\* C12: on the non-fallback path the list the dashboard's ranker returns
\* is the first n candidates in the order of descending absolute price
\* change, equal changes in the order of descending volume; the tickers
\* {B, -8, vol 5}, {C, +8, vol 9} give [C, B].
C12_RankedByChangeThenVolume ==
    (ranked # <<>> /\ ~MustFallBack(SignalsCandidates)) =>
        LET l == ranked[1].signals
        IN  /\ Len(l) = Min2(top_n, Len(SignalsCandidates))
            /\ \A i, j \in 1..Len(l) :
                  i < j => RanksNoLower(TickerOf(l[i]), TickerOf(l[j]))
            /\ \A i \in 1..Len(l), k \in 1..Len(SignalsCandidates) :
                  (\A j \in 1..Len(l) : l[j] # SignalsCandidates[k].symbol)
                      => RanksNoLower(TickerOf(l[i]), SignalsCandidates[k])
            /\ (tickers.data = <<TickerB, TickerC>> /\ top_n = 2) =>
                  l = <<TickerC.symbol, TickerB.symbol>>

\* C13: every symbol the dashboard's ranker returns on the non-fallback
\* path ends with USDT, has no PERP in it, is not on the denylist and has
\* a volume above zero.
C13_ReturnedSymbolsFiltered ==
    (ranked # <<>> /\ ~MustFallBack(SignalsCandidates)) =>
        \A i \in 1..Len(ranked[1].signals) :
            LET sym == ranked[1].signals[i]
            IN  /\ EndsWith(sym, USDT)
                /\ ~Contains(sym, PERP)
                /\ sym \notin excluded_symbols
                /\ TickerOf(sym).volume > 0

----------------------------------------------------------------------------
(* Properties of atr (specification SpecAtr) *)

\* the true range of candle i (1-based) as the specification defines it
SpecTR(i) ==
    IF i = 1 THEN atr_df[1].high - atr_df[1].low
    ELSE LET c == { atr_df[i].high - atr_df[i].low,
                    Abs(atr_df[i].high - atr_df[i - 1].close),
                    Abs(atr_df[i].low - atr_df[i - 1].close) }
         IN  CHOOSE m \in c : \A x \in c : x <= m

\* C14: for a frame of k >= 1 candles and a period p >= 1, the ATR at the
\* last candle is the arithmetic mean of the true ranges of the last
\* min(p, k) candles, the true range of the first candle being high - low;
\* the value is a number (never 0/0) also when k < p.
C14_AtrIsMeanOfLastTrueRanges ==
    atr_out # <<>> =>
        LET k == Len(atr_df)
            n == IF atr_period < k THEN atr_period ELSE k
            window == (k - n + 1)..k
            total == SumTo([i \in 1..k |-> SpecTR(i)], k - n + 1, k)
        IN  /\ atr_out[1].den > 0
            /\ Cardinality(window) = n
            /\ atr_out[1].num * n = total * atr_out[1].den

\* C14 witness: a frame of two candles, shorter than the period 3, whose
\* second true range is the distance to the previous close
C14_Witness ==
    /\ atr_out # <<>>
    /\ Len(atr_df) = 2
    /\ atr_period = 3
    /\ SpecTR(2) > atr_df[2].high - atr_df[2].low
    /\ atr_out[1].num > 0

----------------------------------------------------------------------------
(* Properties of rate_limited_request (specifications SpecRL, FairSpecRL) *)

\* C15: whenever an HTTP request is sent to a url to which one was sent
\* before, at least the minimum interval of 200 ms (two ticks) lies
\* between the two, whatever became of the earlier one.
C15_MinimumSpacing == gap = -1 \/ gap >= 2

\* C16: a call sends at most 3 HTTP requests and ends: while it runs,
\* every request so far was rejected and fewer than 3 were sent; a call
\* that returns returns an accepted response; a call whose last response
\* was rejected has raised; the waits after rejected attempts grow with
\* the attempt number (strictly among the waits for one kind of
\* rejection, and never shrinking from one attempt to the next); and a
\* running call eventually is over.
C16_BoundedRetries ==
    /\ [](/\ call.sends <= 3
          /\ call.pc = "request" =>
                /\ call.sends < 3
                /\ call.attempt = call.sends
                /\ Len(call.waits) = call.sends
                /\ call.result = "none"
          /\ call.result = "returned" => call.status = "ok"
          /\ (call.pc = "idle" /\ call.status \notin {"none", "ok"}) =>
                call.result = "raised"
          /\ \A i, j \in 1..Len(call.waits) :
                i < j =>
                    /\ call.waits[i].wait <= call.waits[j].wait
                    /\ call.waits[i].outcome = call.waits[j].outcome =>
                          call.waits[i].wait < call.waits[j].wait)
    /\ (call.pc = "request") ~> (call.pc = "idle")

\* C16 witness: a call was throttled three times, waited three times and
\* raised
C16_Witness ==
    /\ call.pc = "idle"
    /\ call.sends = 3
    /\ call.status = "451"
    /\ Len(call.waits) = 3
    /\ call.result = "raised"

----------------------------------------------------------------------------
(* Properties of the evaluation cycle (specification Spec) *)

\* a cycle is in flight from the ranking to the end of its state update
InFlight == pc \in {"recommend", "display", "notify"}

\* C17: a cycle starts only from the top of a script run, when no cycle is
\* in flight and the previous run has ended and left nothing behind; a
\* run begins only after the previous one has slept; and a cycle that was
\* not asked for by the refresh button starts only when at least the
\* refresh interval has passed since the previous cycle started.
C17_OneCycleAtATime ==
    [][/\ (pc' = "recommend" /\ Len(results') = 0) =>
            /\ ~InFlight
            /\ pc = "start"
            /\ results = <<>> /\ idx = 1 /\ alerts = <<>>
            /\ elapsed' = 0
            /\ ~manual_refresh' => elapsed >= RefreshTicks
       /\ pc' = "start" => pc = "sleep"
       /\ (InFlight /\ ~InFlight') => pc' = "sleep"]_vars

\* C17 witness: a cycle that the button did not ask for has started in a
\* session whose earlier cycle stored a signal
C17_Witness ==
    /\ pc = "recommend"
    /\ results = <<>>
    /\ ~manual_refresh
    /\ elapsed = 0
    /\ DOMAIN last_signals # {}

\* C18: a turn of the notification loop on an error record leaves the
\* last-signal map as it is, the entry of the record's symbol included,
\* and sends no alert.
C18_ErrorRecordLeavesMap ==
    [][(pc = "notify" /\ "error" \in DOMAIN results[idx]) =>
          /\ last_signals' = last_signals
          /\ alerts' = alerts]_vars

\* C18 witness: the block has processed an error record for a symbol that
\* has a stored signal
C18_Witness ==
    /\ idx = 2
    /\ "error" \in DOMAIN results[1]
    /\ results[1].symbol \in DOMAIN last_signals

\* C19: when the alert for a new signal could not be sent, the signal is
\* stored all the same, and it stays stored until the block processes
\* another signal for the symbol; a turn of the loop on that same signal
\* makes no further send attempt.
C19_CommitBeforeSend ==
    /\ [](\A s \in DOMAIN failed :
            s \in DOMAIN last_signals /\ last_signals[s] = failed[s])
    /\ [][/\ (pc = "notify" /\ Len(alerts') > Len(alerts)) =>
                /\ results[idx].symbol \in DOMAIN last_signals'
                /\ last_signals'[results[idx].symbol] = results[idx].signal
          /\ (/\ pc = "notify"
              /\ results[idx].symbol \in DOMAIN failed
              /\ "signal" \in DOMAIN results[idx]
              /\ results[idx].signal = failed[results[idx].symbol])
                  => alerts' = alerts]_vars

\* C19 witness: a later cycle has processed, without sending, the signal
\* whose alert failed in an earlier cycle
C19_Witness ==
    /\ idx = 2
    /\ alerts = <<>>
    /\ results[1].symbol \in DOMAIN failed
    /\ "signal" \in DOMAIN results[1]
    /\ results[1].signal = failed[results[1].symbol]

\* C20: the last-signal map changes only in a turn of the notification
\* loop, and only at the symbol of the result of that turn; a symbol that
\* a cycle did not rank keeps its stored signal, and when the block then
\* processes the same signal for it, no alert is sent.
C20_OnlyResultSymbolsChange ==
    /\ [][\A s \in {"BTCUSDT", "ETHUSDT"} :
            Last(last_signals', s) # Last(last_signals, s)
                => (pc = "notify" /\ results[idx].symbol = s)]_vars
    /\ [](\A s \in DOMAIN absent :
            s \in DOMAIN last_signals /\ last_signals[s] = absent[s])
    /\ [][(/\ pc = "notify"
           /\ results[idx].symbol \in DOMAIN absent
           /\ "signal" \in DOMAIN results[idx]
           /\ results[idx].signal = absent[results[idx].symbol])
              => alerts' = alerts /\ last_signals' = last_signals]_vars

\* C20 witness: a symbol with a stored signal was not ranked by a cycle,
\* is back in the results of a later one with that same signal, and the
\* block is about to process it
C20_Witness ==
    /\ pc = "notify"
    /\ idx = 1
    /\ results[1].symbol \in DOMAIN absent
    /\ "signal" \in DOMAIN results[1]
    /\ results[1].signal = absent[results[1].symbol]

----------------------------------------------------------------------------
(* Properties of the levels (specification SpecLevels) *)

\* C21: an actionable recommendation with price > 0 and atr_pct >= 0 has
\* its levels on the right sides of the entry (SCALP LONG: sl < entry < tp,
\* SCALP SHORT: tp < entry < sl) and a risk-reward ratio of at least 1
\* (100 hundredths).
C21_LevelSidesAndRiskReward ==
    (/\ rec # <<>>
     /\ "signal" \in DOMAIN rec[1]
     /\ rec[1].signal \in {"SCALP LONG", "SCALP SHORT"}
     /\ rec[1].price > 0
     /\ rec[1].atr_pct.num >= 0 /\ rec[1].atr_pct.den > 0) =>
        LET r == rec[1]
        IN  /\ r.entry # <<>> /\ r.tp # <<>> /\ r.sl # <<>> /\ r.rr # <<>>
            /\ r.signal = "SCALP LONG" =>
                  r.sl[1] < r.entry[1] /\ r.entry[1] < r.tp[1]
            /\ r.signal = "SCALP SHORT" =>
                  r.tp[1] < r.entry[1] /\ r.entry[1] < r.sl[1]
            /\ r.rr[1] >= 100

====
